---- MODULE Spec2Model ----
(***************************************************************************)
(* Model of src/main.py: a FastAPI gateway in front of the yt-dlp          *)
(* Extractor.  A request is received, the handler may call                 *)
(* ydl.extract_info (the only blocking external call), and the handler     *)
(* turns the Extractor's outcome into an HTTP response.                    *)
(*                                                                         *)
(* Python values are modelled as follows.  A string is a TLA+ string; a    *)
(* formatted message (an f-string) is the tuple of its parts.  A dict key  *)
(* that holds a string and is missing is the string Missing.  The 'height' *)
(* and 'filesize' keys of a format are records [k, v] with k one of        *)
(* "missing" (no such key), "none" (the key holds None) and "int".  A URL  *)
(* that is missing, None or "" is "" (the code only tests its truth).      *)
(* The pass-through metadata (title, duration, view_count, uploader) takes *)
(* part in no branch and is left out of the records.                       *)
(***************************************************************************)
EXTENDS Integers, Sequences, FiniteSets, TLC

(* ------------------------------ bounds -------------------------------- *)

\* longest candidate sequence the Extractor returns to POST /extract
MaxFormats == 6

\* longest candidate sequence the Extractor returns to GET /stream
MaxStreamFormats == 4

\* longest candidate sequence in the runs with concurrent requests
MaxGatewayFormats == 1

\* time.time() returns one of 1..MaxClock (seconds)
MaxClock == 2

(* ------------------------- program constants -------------------------- *)

MaxHeight == 720

DisplayScan == 5

StreamScan == 3

HeightDefault == 0

Missing == "<missing>"

Requests == {"r1", "r2"}

Clock == 1..MaxClock

(* --------------------------- input domains ---------------------------- *)

IntVal(n) == [k |-> "int", v |-> n]

NoneVal == [k |-> "none", v |-> 0]

MissingVal == [k |-> "missing", v |-> 0]

\* the identifier and the playback URL of the candidate at each position
FormatIds == <<"f1", "f2", "f3", "f4", "f5", "f6", "f7", "f8">>

CandidateUrls == <<"A", "B", "C", "D", "E", "F", "G", "H">>

\* the kinds of candidate the Extractor returns: an mp4 and a webm rendition
\* within the height limit, an audio-only one (no height key), one above the
\* limit, one without a URL, and one whose height key holds None.
Kinds ==
  <<[ext |-> "mp4",  height |-> IntVal(360),  vcodec |-> "avc1", hasUrl |-> TRUE,  format_note |-> "360p"],
    [ext |-> "webm", height |-> IntVal(480),  vcodec |-> "vp9",  hasUrl |-> TRUE,  format_note |-> "480p"],
    [ext |-> "m4a",  height |-> MissingVal,   vcodec |-> "none", hasUrl |-> TRUE,  format_note |-> "audio"],
    [ext |-> "mp4",  height |-> IntVal(1080), vcodec |-> "avc1", hasUrl |-> TRUE,  format_note |-> "1080p"],
    [ext |-> "mp4",  height |-> IntVal(360),  vcodec |-> "avc1", hasUrl |-> FALSE, format_note |-> Missing],
    [ext |-> "webm", height |-> NoneVal,      vcodec |-> "vp9",  hasUrl |-> TRUE,  format_note |-> "dash"]>>

ExtractKinds == 1..Len(Kinds)

StreamKinds == {1, 3, 5}

GatewayKinds == {1, 6}

Candidate(i, k) ==
  [format_id   |-> FormatIds[i],
   ext         |-> Kinds[k].ext,
   height      |-> Kinds[k].height,
   filesize    |-> NoneVal,
   format_note |-> Kinds[k].format_note,
   vcodec      |-> Kinds[k].vcodec,
   url         |-> IF Kinds[k].hasUrl THEN CandidateUrls[i] ELSE ""]

\* the candidate sequence of the given kinds, position by position
Candidates(ks) == [i \in 1..Len(ks) |-> Candidate(i, ks[i])]

\* what ydl.extract_info returns: the top-level 'url' and 'ext', and 'formats'
Info(url, ext, ks) == [url |-> url, ext |-> ext, formats |-> Candidates(ks)]

TopUrls == {"", "T"}

ExtractExts == {Missing}

StreamExts == {Missing, "mp4", "webm", "NON_LATIN1"}

GatewayExts == {Missing, "webm"}

NoInfo == [url |-> "", ext |-> Missing, formats |-> <<>>]

\* what ydl.extract_info raises
ExtractorErrors == {"network error", "unsupported url"}

\* the url of a request: an absolute http(s) URL, and strings that are not one
UrlInputs ==
  {[scheme |-> "https", host |-> "example.com"],
   [scheme |-> "",      host |-> "not a url"]}

NoUrl == [scheme |-> "", host |-> ""]

(* ------------------------ Python values ------------------------------- *)

\* d.get(key, default) for a string-valued key
DictGet(v, default) == IF v = Missing THEN default ELSE v

\* d.get(key) for an integer-valued key: None when the key is missing
DictGetOrNone(v) == IF v.k = "missing" THEN NoneVal ELSE v

\* an exception: its class, the status of an HTTPException, and str(e)
Exc(type, status, msg) == [type |-> type, status |-> status, msg |-> msg]

NoExc == Exc("", 0, <<>>)

HTTPException(status, detail) == Exc("HTTPException", status, detail)

TypeErrorNoneLe == Exc("TypeError", 0, <<"'<=' not supported between instances of 'NoneType' and 'int'">>)

ExtractorError(msg) == Exc("DownloadError", 0, <<msg>>)

(* ------------------------ extract_video_info -------------------------- *)

\* the data extract_video_info returns
VideoData(url, formats, selected_format) ==
  [url |-> url, formats |-> formats, selected_format |-> selected_format]

NoVideoData == VideoData("", <<>>, Missing)

\* the outcome of a call: a returned value or a raised exception
Return(value) == [kind |-> "return", value |-> value, exc |-> NoExc]

Raise(exc) == [kind |-> "raise", value |-> NoVideoData, exc |-> exc]

\* a scan's outcome: the index found, none, or the exception raised
Found(i) == [kind |-> "found", idx |-> i]

NotFound == [kind |-> "none", idx |-> 0]

ScanRaised == [kind |-> "raise", idx |-> 0]

\* fmt.get('height', 0)
HeightGet(fmt) == IF fmt.height.k = "missing" THEN IntVal(HeightDefault) ELSE fmt.height

\* the first loop: ext == 'mp4' and height <= 720 and url.  `and` evaluates
\* left to right, so the height is compared only for an mp4 entry, and
\* None <= 720 raises TypeError.
RECURSIVE Mp4Scan(_, _)
Mp4Scan(formats, i) ==
  IF i > Len(formats) THEN NotFound
  ELSE IF formats[i].ext # "mp4" THEN Mp4Scan(formats, i + 1)
  ELSE IF HeightGet(formats[i]).k = "none" THEN ScanRaised
  ELSE IF HeightGet(formats[i]).v <= MaxHeight /\ formats[i].url # "" THEN Found(i)
  ELSE Mp4Scan(formats, i + 1)

\* the second loop: height <= 720 and url and vcodec != 'none'.  The height
\* is compared first, for every entry reached.
RECURSIVE AnyScan(_, _)
AnyScan(formats, i) ==
  IF i > Len(formats) THEN NotFound
  ELSE IF HeightGet(formats[i]).k = "none" THEN ScanRaised
  ELSE IF /\ HeightGet(formats[i]).v <= MaxHeight
          /\ formats[i].url # ""
          /\ formats[i].vcodec # "none" THEN Found(i)
  ELSE AnyScan(formats, i + 1)

\* download_url and selected_format after the selection steps
SelectDownload(info) ==
  IF info.url # "" THEN Return(VideoData(info.url, <<>>, "auto"))
  ELSE LET mp4 == Mp4Scan(info.formats, 1)
           any == AnyScan(info.formats, 1)
           sel(i) == VideoData(info.formats[i].url, <<>>,
                               DictGet(info.formats[i].format_note, "auto"))
       IN  IF mp4.kind = "raise" THEN Raise(TypeErrorNoneLe)
           ELSE IF mp4.kind = "found" THEN Return(sel(mp4.idx))
           ELSE IF any.kind = "raise" THEN Raise(TypeErrorNoneLe)
           ELSE IF any.kind = "found" THEN Return(sel(any.idx))
           ELSE Return(VideoData("", <<>>, "auto"))

\* an entry of processed_formats
ProcessedFormat(fmt) ==
  [format_id |-> DictGet(fmt.format_id, ""),
   ext       |-> DictGet(fmt.ext, ""),
   height    |-> DictGetOrNone(fmt.height),
   filesize  |-> DictGetOrNone(fmt.filesize),
   note      |-> DictGet(fmt.format_note, "")]

\* a faulty variant: the url test is dropped
DisplayableAnyUrl(fmt) == fmt.vcodec # "none"

\* vcodec != 'none' and url
Displayable(fmt) == fmt.vcodec # "none" /\ fmt.url # ""

\* info['formats'][:5]
FirstN(formats, n) == SubSeq(formats, 1, IF Len(formats) < n THEN Len(formats) ELSE n)

\* a faulty variant: the entries are filtered first and cut to five afterwards
ProcessedFormatsFilterFirst(formats) ==
  LET kept == FirstN(SelectSeq(formats, Displayable), DisplayScan)
  IN  [i \in 1..Len(kept) |-> ProcessedFormat(kept[i])]

\* the entries of processed_formats, in order
ProcessedFormats(formats) ==
  LET kept == SelectSeq(FirstN(formats, DisplayScan), Displayable)
  IN  [i \in 1..Len(kept) |-> ProcessedFormat(kept[i])]

\* the data returned when yt-dlp is not installed
MockData ==
  VideoData("https://mock-download-url.com/test-video.mp4",
            <<[format_id |-> "18", ext |-> "mp4", height |-> IntVal(360),
               filesize |-> MissingVal, note |-> Missing],
              [format_id |-> "22", ext |-> "mp4", height |-> IntVal(MaxHeight),
               filesize |-> MissingVal, note |-> Missing]>>,
            Missing)

\* the try block of extract_video_info once extract_info has returned info
ExtractVideoInfoTry(info) ==
  LET chosen == SelectDownload(info)
  IN  IF chosen.kind = "raise" THEN chosen
      ELSE Return(VideoData(chosen.value.url, ProcessedFormats(info.formats),
                            chosen.value.selected_format))

\* except Exception as e: raise HTTPException(500, f"Video extraction failed: {e}")
ExtractVideoInfoExcept(outcome) ==
  IF outcome.kind = "raise"
  THEN Raise(HTTPException(500, <<"Video extraction failed: ">> \o outcome.exc.msg))
  ELSE outcome

(* ----------------------------- responses ------------------------------ *)

\* f"{base_url}/stream?url={url}"
ProxyUrl(url) ==
  [base |-> "https://railway-ytdlp-fresh-railway-ytdlp-fresh.up.railway.app",
   path |-> "/stream?url=", url |-> url]

NoProxyUrl == [base |-> "", path |-> "", url |-> NoUrl]

\* an HTTP response: its status and the keys of its body or its headers
NoResponse ==
  [status |-> 0, success |-> Missing, formats |-> <<>>, proxy_url |-> NoProxyUrl,
   selected_format |-> Missing, message |-> Missing, error |-> <<>>,
   detail |-> <<>>, location |-> "", filename |-> <<>>, yt_dlp |-> Missing,
   timestamp |-> 0]

\* FastAPI's answer to an HTTPException that leaves a handler
HttpErrorResponse(exc) ==
  [NoResponse EXCEPT !.status = exc.status, !.detail = exc.msg]

\* FastAPI's answer to a body that is no VideoRequest
ValidationErrorResponse ==
  [NoResponse EXCEPT !.status = 422, !.detail = <<"url", "invalid or missing URL scheme">>]

\* url: HttpUrl
HttpUrlValid(url) == url.scheme \in {"http", "https"} /\ url.host # ""

(* ---------------------------- POST /extract --------------------------- *)

\* the try block of extract_video: the call's outcome, then the body
ExtractVideoTry(url, outcome) ==
  IF outcome.kind = "raise" THEN outcome
  ELSE Return([NoResponse EXCEPT
                 !.status = 200, !.success = "true",
                 !.formats = outcome.value.formats,
                 !.proxy_url = ProxyUrl(url),
                 !.selected_format = DictGet(outcome.value.selected_format, "auto"),
                 !.message = "Video information extracted with Railway proxy download URL"])

\* a faulty variant: no `except HTTPException: raise` clause
ExtractVideoExceptSwallow(outcome) ==
  IF outcome.kind = "return" THEN outcome.value
  ELSE [NoResponse EXCEPT !.status = 200, !.success = "false",
                          !.error = outcome.exc.msg,
                          !.message = "Video extraction failed"]

\* except HTTPException: raise / except Exception as e: return {success: False}
ExtractVideoExcept(outcome) ==
  IF outcome.kind = "return" THEN outcome.value
  ELSE IF outcome.exc.type = "HTTPException" THEN HttpErrorResponse(outcome.exc)
  ELSE [NoResponse EXCEPT !.status = 200, !.success = "false",
                          !.error = outcome.exc.msg,
                          !.message = "Video extraction failed"]

\* extract_video, given what extract_video_info did
ExtractVideo(url, outcome) == ExtractVideoExcept(ExtractVideoTry(url, outcome))

(* ----------------------------- GET /stream ---------------------------- *)

\* the first entry of formats, from index i on, whose url is true
RECURSIVE FirstUrl(_, _)
FirstUrl(formats, i) ==
  IF i > Len(formats) THEN ""
  ELSE IF formats[i].url # "" THEN formats[i].url
  ELSE FirstUrl(formats, i + 1)

\* the first entry of formats, from index i on, with a url and a video codec
RECURSIVE FirstVideoUrl(_, _)
FirstVideoUrl(formats, i) ==
  IF i > Len(formats) THEN ""
  ELSE IF formats[i].url # "" /\ formats[i].vcodec # "none" THEN formats[i].url
  ELSE FirstVideoUrl(formats, i + 1)

\* a faulty variant: the scan skips audio-only candidates, as /extract does
StreamSelectVideoOnly(info) ==
  IF info.url # "" THEN info.url ELSE FirstVideoUrl(FirstN(info.formats, StreamScan), 1)

\* stream_url: info['url'], else the first url among info['formats'][:3]
StreamSelect(info) ==
  IF info.url # "" THEN info.url ELSE FirstUrl(FirstN(info.formats, StreamScan), 1)

\* f"video_{timestamp}.{ext}" with ext = info.get('ext', 'mp4')
StreamFilename(timestamp, info) == <<"video_", timestamp, ".", DictGet(info.ext, "mp4")>>

\* a header value must encode as latin-1
HeaderEncodable(filename) == filename[4] # "NON_LATIN1"

UnicodeEncodeError ==
  Exc("UnicodeEncodeError", 0, <<"'latin-1' codec can't encode characters">>)

\* RedirectResponse(url=stream_url, status_code=302) and its headers
Redirect(stream_url, filename) ==
  [NoResponse EXCEPT !.status = 302, !.location = stream_url, !.filename = filename]

\* the try block of stream_video once extract_info has returned info
StreamTry(info, timestamp) ==
  LET stream_url == StreamSelect(info)
      filename == StreamFilename(timestamp, info)
  IN  IF stream_url = ""
      THEN Raise(HTTPException(404, <<"No streamable URL found for this video">>))
      ELSE IF ~HeaderEncodable(filename) THEN Raise(UnicodeEncodeError)
      ELSE Return(Redirect(stream_url, filename))

\* whether stream_video reads time.time(): only once a stream_url is found
ReadsClock(rv) == rv.kind = "return" /\ StreamSelect(rv.info) # ""

\* the except clauses of stream_video: both return a JSON body
StreamExcept(outcome) ==
  IF outcome.kind = "return" THEN outcome.value
  ELSE IF outcome.exc.type = "UnicodeEncodeError"
  THEN [NoResponse EXCEPT !.status = 200,
                          !.error = <<"Character encoding error: ">> \o outcome.exc.msg]
  ELSE [NoResponse EXCEPT !.status = 200,
                          !.error = <<"Streaming failed: ">> \o outcome.exc.msg]

StreamUnavailable ==
  StreamExcept(Raise(HTTPException(503, <<"yt-dlp service not available">>)))

(* ------------------ POST /download, GET /health, GET / ----------------- *)

PrepareDownload(url) ==
  [NoResponse EXCEPT !.status = 200, !.success = "true", !.proxy_url = ProxyUrl(url),
                     !.message = "download ready"]

\* int(time.time() * 1000)
Millis(t) == t * 1000

HealthResponse(available, t) ==
  [NoResponse EXCEPT !.status = 200, !.timestamp = Millis(t),
                     !.yt_dlp = IF available THEN "available" ELSE "mock_mode",
                     !.message = "healthy"]

RootResponse(available, t) ==
  [NoResponse EXCEPT !.status = 200, !.timestamp = Millis(t),
                     !.yt_dlp = IF available THEN "true" ELSE "false",
                     !.message = "running"]

(* ---------------------------- the gateway ----------------------------- *)

VARIABLES
  YT_DLP_AVAILABLE,  \* whether `import yt_dlp` succeeded; set once, at import
  pc,                \* where each request stands
  req,               \* each request's path and url
  calls,             \* the urls each request has passed to ydl.extract_info
  extracted,         \* what ydl.extract_info did for each request (local `info`)
  now,               \* the time.time() each request read (0: none)
  video_data,        \* what extract_video_info did for each request
  resp               \* each request's response

vars == <<YT_DLP_AVAILABLE, pc, req, calls, extracted, now, video_data, resp>>

NoRequest == [path |-> "", url |-> NoUrl]

NotCalled == [kind |-> "none", info |-> NoInfo, exc |-> NoExc]

Returned(info) == [kind |-> "return", info |-> info, exc |-> NoExc]

Raised(exc) == [kind |-> "raise", info |-> NoInfo, exc |-> exc]

NoOutcome == [kind |-> "none", value |-> NoVideoData, exc |-> NoExc]

Init ==
  /\ YT_DLP_AVAILABLE \in BOOLEAN
  /\ pc = [r \in Requests |-> "idle"]
  /\ req = [r \in Requests |-> NoRequest]
  /\ calls = [r \in Requests |-> <<>>]
  /\ extracted = [r \in Requests |-> NotCalled]
  /\ now = [r \in Requests |-> 0]
  /\ video_data = [r \in Requests |-> NoOutcome]
  /\ resp = [r \in Requests |-> NoResponse]

\* a faulty variant: the variable is a module-level global, one for all requests
Shared(var, r) == var["r1"]

\* a handler's local variable: each request has its own
Local(var, r) == var[r]

\* the request ends with this response
Finish(r, response) ==
  /\ pc' = [pc EXCEPT ![r] = "done"]
  /\ resp' = [resp EXCEPT ![r] = response]

\* with yt_dlp.YoutubeDL(ydl_opts) as ydl: info = ydl.extract_info(url, download=False)
CallExtractor(r, url) ==
  /\ calls' = [calls EXCEPT ![r] = Append(@, url)]
  /\ pc' = [pc EXCEPT ![r] = "extract_info"]
  /\ UNCHANGED resp

\* a faulty variant: a raise of ydl.extract_info is swallowed and the selection
\* runs on the empty result
ExtractVideoInfoPartial(rv) == ExtractVideoInfoExcept(ExtractVideoInfoTry(rv.info))

\* extract_video_info, given what ydl.extract_info did
ExtractVideoInfo(rv) ==
  ExtractVideoInfoExcept(IF rv.kind = "raise" THEN Raise(rv.exc)
                         ELSE ExtractVideoInfoTry(rv.info))

\* stream_video, given what ydl.extract_info did and the clock
StreamVideo(rv, t) ==
  StreamExcept(IF rv.kind = "raise" THEN Raise(rv.exc) ELSE StreamTry(rv.info, t))

\* POST /extract arrives: the body is validated, then extract_video runs up
\* to the call of ydl.extract_info (or to its end, in mock mode)
ExtractReceive(r) ==
  /\ pc[r] = "idle"
  /\ \E url \in UrlInputs :
       /\ req' = [req EXCEPT ![r] = [path |-> "/extract", url |-> url]]
       /\ IF ~HttpUrlValid(url)
          THEN /\ Finish(r, ValidationErrorResponse)
               /\ UNCHANGED <<calls, video_data>>
          ELSE IF ~YT_DLP_AVAILABLE
          THEN /\ video_data' = [video_data EXCEPT ![r] = Return(MockData)]
               /\ Finish(r, ExtractVideo(url, Return(MockData)))
               /\ UNCHANGED calls
          ELSE /\ CallExtractor(r, url)
               /\ UNCHANGED video_data
  /\ UNCHANGED <<YT_DLP_AVAILABLE, extracted, now>>

\* GET /stream arrives: stream_video runs up to the call of ydl.extract_info
StreamReceive(r) ==
  /\ pc[r] = "idle"
  /\ \E url \in UrlInputs :
       /\ req' = [req EXCEPT ![r] = [path |-> "/stream", url |-> url]]
       /\ IF ~YT_DLP_AVAILABLE
          THEN /\ Finish(r, StreamUnavailable)
               /\ UNCHANGED calls
          ELSE CallExtractor(r, url)
  /\ UNCHANGED <<YT_DLP_AVAILABLE, extracted, now, video_data>>

\* ydl.extract_info returns a result
ExtractorReturns(r, kinds, maxLen, exts) ==
  /\ pc[r] = "extract_info"
  /\ \E n \in 0..maxLen : \E ks \in [1..n -> kinds] :
       \E url \in TopUrls : \E ext \in exts :
         extracted' = [extracted EXCEPT ![r] = Returned(Info(url, ext, ks))]
  /\ pc' = [pc EXCEPT ![r] = "returned"]
  /\ UNCHANGED <<YT_DLP_AVAILABLE, req, calls, now, video_data, resp>>

\* ydl.extract_info raises
ExtractorRaises(r) ==
  /\ pc[r] = "extract_info"
  /\ \E msg \in ExtractorErrors :
       extracted' = [extracted EXCEPT ![r] = Raised(ExtractorError(msg))]
  /\ pc' = [pc EXCEPT ![r] = "returned"]
  /\ UNCHANGED <<YT_DLP_AVAILABLE, req, calls, now, video_data, resp>>

\* the rest of extract_video_info and of extract_video
ExtractRespond(r) ==
  /\ pc[r] = "returned"
  /\ req[r].path = "/extract"
  /\ video_data' = [video_data EXCEPT ![r] = ExtractVideoInfo(Local(extracted, r))]
  /\ Finish(r, ExtractVideo(req[r].url, video_data'[r]))
  /\ UNCHANGED <<YT_DLP_AVAILABLE, req, calls, extracted, now>>

\* the rest of stream_video
StreamRespond(r) ==
  /\ pc[r] = "returned"
  /\ req[r].path = "/stream"
  /\ \E t \in Clock :
       /\ now' = [now EXCEPT ![r] = IF ReadsClock(Local(extracted, r)) THEN t ELSE 0]
       /\ Finish(r, StreamVideo(Local(extracted, r), now'[r]))
  /\ UNCHANGED <<YT_DLP_AVAILABLE, req, calls, extracted, video_data>>

\* POST /download
Download(r) ==
  /\ pc[r] = "idle"
  /\ \E url \in UrlInputs :
       /\ req' = [req EXCEPT ![r] = [path |-> "/download", url |-> url]]
       /\ Finish(r, IF HttpUrlValid(url) THEN PrepareDownload(url)
                    ELSE ValidationErrorResponse)
  /\ UNCHANGED <<YT_DLP_AVAILABLE, calls, extracted, now, video_data>>

\* GET /health
Health(r) ==
  /\ pc[r] = "idle"
  /\ req' = [req EXCEPT ![r] = [path |-> "/health", url |-> NoUrl]]
  /\ \E t \in Clock :
       /\ now' = [now EXCEPT ![r] = t]
       /\ Finish(r, HealthResponse(YT_DLP_AVAILABLE, t))
  /\ UNCHANGED <<YT_DLP_AVAILABLE, calls, extracted, video_data>>

\* GET /
Root(r) ==
  /\ pc[r] = "idle"
  /\ req' = [req EXCEPT ![r] = [path |-> "/", url |-> NoUrl]]
  /\ \E t \in Clock :
       /\ now' = [now EXCEPT ![r] = t]
       /\ Finish(r, RootResponse(YT_DLP_AVAILABLE, t))
  /\ UNCHANGED <<YT_DLP_AVAILABLE, calls, extracted, video_data>>

(* --------------------------- specifications --------------------------- *)

\* concurrent requests on every path
Next ==
  \E r \in Requests :
    \/ ExtractReceive(r)
    \/ StreamReceive(r)
    \/ ExtractorReturns(r, GatewayKinds, MaxGatewayFormats, GatewayExts)
    \/ ExtractorRaises(r)
    \/ ExtractRespond(r)
    \/ StreamRespond(r)
    \/ Download(r)
    \/ Health(r)
    \/ Root(r)

Spec == Init /\ [][Next]_vars

\* one POST /extract, over every Extractor result up to MaxFormats candidates
NextExtract ==
  \/ ExtractReceive("r1")
  \/ ExtractorReturns("r1", ExtractKinds, MaxFormats, ExtractExts)
  \/ ExtractorRaises("r1")
  \/ ExtractRespond("r1")

SpecExtract == Init /\ [][NextExtract]_vars

\* one GET /stream, over every Extractor result up to MaxStreamFormats candidates
NextStream ==
  \/ StreamReceive("r1")
  \/ ExtractorReturns("r1", StreamKinds, MaxStreamFormats, StreamExts)
  \/ ExtractorRaises("r1")
  \/ StreamRespond("r1")

SpecStream == Init /\ [][NextStream]_vars

(* ------------------------------ claims -------------------------------- *)

Min(a, b) == IF a < b THEN a ELSE b

\* the least index of a non-empty set of indices
Least(S) == CHOOSE i \in S : \A j \in S : i <= j

\* the k-th least index of a set of indices
Nth(S, k) == CHOOSE i \in S : Cardinality({j \in S : j <= i}) = k

\* a request on this path that has its response
DoneOn(r, path) == pc[r] = "done" /\ req[r].path = path

\* a candidate's height is within the limit; one that states no height counts
\* as height 0
Within720(fmt) == fmt.height.k = "int" => fmt.height.v <= 720

\* the playback URL the four-step priority names
PriorityUrl(info) ==
  LET mp4s == {i \in 1..Len(info.formats) :
                 /\ info.formats[i].ext = "mp4"
                 /\ Within720(info.formats[i])
                 /\ info.formats[i].url # ""}
      vids == {i \in 1..Len(info.formats) :
                 /\ Within720(info.formats[i])
                 /\ info.formats[i].url # ""
                 /\ info.formats[i].vcodec # "none"}
  IN  IF info.url # "" THEN info.url
      ELSE IF mp4s # {} THEN info.formats[Least(mp4s)].url
      ELSE IF vids # {} THEN info.formats[Least(vids)].url
      ELSE ""

\* C1: whenever the Extractor returns a result to POST /extract,
\* extract_video_info returns, and the playback URL it chose is the one the
\* four-step priority names: the top-level URL, else the first mp4 candidate
\* within 720 with a URL, else the first candidate within 720 with a URL and
\* a video codec, else the empty string.
C1_PriorityOrder ==
  \A r \in Requests :
    DoneOn(r, "/extract") /\ extracted[r].kind = "return" =>
      /\ video_data[r].kind = "return"
      /\ video_data[r].value.url = PriorityUrl(extracted[r].info)

\* the first three candidates carry no URL and neither does the top level
NoStreamableUrl(info) ==
  /\ info.url = ""
  /\ \A i \in 1..Min(3, Len(info.formats)) : info.formats[i].url = ""

\* C2: GET /stream answers 404 when the Extractor returned a result with no
\* top-level URL and no URL among its first three candidates.
C2_NoUrlIs404 ==
  \A r \in Requests :
    DoneOn(r, "/stream") /\ extracted[r].kind = "return"
      /\ NoStreamableUrl(extracted[r].info) => resp[r].status = 404

\* C3 as stated: when the Extractor raises, POST /extract answers 200 with
\* {success: false, error: <message>}.
C3_ExtractorFailureIs200 ==
  \A r \in Requests :
    DoneOn(r, "/extract") /\ extracted[r].kind = "raise" =>
      /\ resp[r].status = 200
      /\ resp[r].success = "false"
      /\ resp[r].error = extracted[r].exc.msg

\* C3 as amended: when the Extractor raises, POST /extract answers 500 with
\* {detail: "Video extraction failed: <message>"}, and never the
\* {success: false} body.
C3_ExtractorFailureIs500 ==
  \A r \in Requests :
    DoneOn(r, "/extract") /\ extracted[r].kind = "raise" =>
      /\ resp[r].status = 500
      /\ resp[r].detail = <<"Video extraction failed: ">> \o extracted[r].exc.msg
      /\ resp[r].success = Missing

C3_Witness ==
  /\ DoneOn("r1", "/extract")
  /\ extracted["r1"] = Raised(ExtractorError("unsupported url"))
  /\ resp["r1"].status # 0

\* C4: GET /stream answers 503 when yt-dlp is not available and when the
\* Extractor call raises.
C4_UnavailableIs503 ==
  \A r \in Requests :
    DoneOn(r, "/stream") /\ (~YT_DLP_AVAILABLE \/ extracted[r].kind = "raise") =>
      resp[r].status = 503

\* display[i..] is found, in order, among the entries formats[j..] that carry
\* a URL and a video codec
RECURSIVE Embeds(_, _, _, _)
Embeds(display, formats, i, j) ==
  IF i > Len(display) THEN TRUE
  ELSE IF j > Len(formats) THEN FALSE
  ELSE IF /\ display[i].format_id = formats[j].format_id
          /\ formats[j].url # ""
          /\ formats[j].vcodec # "none"
       THEN Embeds(display, formats, i + 1, j + 1)
       ELSE Embeds(display, formats, i, j + 1)

\* C5: the display list extract_video_info returns for an Extractor result has
\* at most 5 entries and is a subsequence, in order and without repeats, of
\* the Extractor's candidates that carry a URL and a video codec.
C5_DisplayIsSubsequence ==
  \A r \in Requests :
    DoneOn(r, "/extract") /\ extracted[r].kind = "return"
      /\ video_data[r].kind = "return" =>
        /\ Len(video_data[r].value.formats) <= 5
        /\ resp[r].formats = video_data[r].value.formats
        /\ Embeds(video_data[r].value.formats, extracted[r].info.formats, 1, 1)

\* two entries displayed around one that was skipped
C5_Witness ==
  /\ DoneOn("r1", "/extract")
  /\ Len(extracted["r1"].info.formats) >= 3
  /\ extracted["r1"].info.formats[2].vcodec = "none"
  /\ video_data["r1"].kind = "return"
  /\ Len(video_data["r1"].value.formats) >= 2
  /\ video_data["r1"].value.formats[2].format_id = "f3"

\* the indices, among the first n, of the candidates with a URL and a video codec
Qualifying(formats, n) ==
  {i \in 1..Min(n, Len(formats)) : formats[i].url # "" /\ formats[i].vcodec # "none"}

\* display lists exactly the candidates at the first `most` of these indices
ListsExactly(display, formats, S, most) ==
  /\ Len(display) = Min(most, Cardinality(S))
  /\ \A k \in 1..Len(display) : display[k].format_id = formats[Nth(S, k)].format_id

\* C6 as stated: the display list is the first five qualifying entries of the
\* whole candidate sequence.
C6_FirstFiveQualifying ==
  \A r \in Requests :
    DoneOn(r, "/extract") /\ extracted[r].kind = "return"
      /\ video_data[r].kind = "return" =>
        LET formats == extracted[r].info.formats
        IN  ListsExactly(video_data[r].value.formats, formats,
                         Qualifying(formats, Len(formats)), 5)

\* C6 as amended: the display list is the qualifying entries among the first
\* five entries of the candidate sequence; entries past the fifth are never
\* listed.
C6_QualifyingOfFirstFive ==
  \A r \in Requests :
    DoneOn(r, "/extract") /\ extracted[r].kind = "return"
      /\ video_data[r].kind = "return" =>
        LET formats == extracted[r].info.formats
        IN  ListsExactly(video_data[r].value.formats, formats,
                         Qualifying(formats, 5), 5)

\* five candidates qualify, one of them past the fifth, and four are listed
C6_Witness ==
  /\ DoneOn("r1", "/extract")
  /\ video_data["r1"].kind = "return"
  /\ Cardinality(Qualifying(extracted["r1"].info.formats, 6)) = 5
  /\ Len(video_data["r1"].value.formats) = 4

\* the URL the two-step selection names
TwoStepUrl(info) ==
  LET urls == {i \in 1..Min(3, Len(info.formats)) : info.formats[i].url # ""}
  IN  IF info.url # "" THEN info.url
      ELSE IF urls # {} THEN info.formats[Least(urls)].url
      ELSE ""

\* the 302 redirect to target, with the attachment filename
RedirectsTo(r, target) ==
  /\ resp[r].status = 302
  /\ resp[r].location = target
  /\ resp[r].filename =
       <<"video_", now[r], ".",
         IF extracted[r].info.ext = Missing THEN "mp4" ELSE extracted[r].info.ext>>
  /\ now[r] \in Clock

\* C7 as stated: whenever the two-step selection finds a URL, GET /stream
\* answers with a 302 redirect to exactly that URL and the filename
\* video_<timestamp>.<ext>.
C7_FoundUrlRedirects ==
  \A r \in Requests :
    DoneOn(r, "/stream") /\ extracted[r].kind = "return"
      /\ TwoStepUrl(extracted[r].info) # "" =>
        RedirectsTo(r, TwoStepUrl(extracted[r].info))

\* C7 as amended: the same, when the filename encodes as a header value;
\* when it does not, the answer is the JSON encoding-error body; and a
\* redirect is sent only to the URL the two-step selection names.
C7_EncodableUrlRedirects ==
  \A r \in Requests :
    DoneOn(r, "/stream") /\ extracted[r].kind = "return" =>
      LET target == TwoStepUrl(extracted[r].info)
      IN  /\ target # "" /\ extracted[r].info.ext # "NON_LATIN1" => RedirectsTo(r, target)
          /\ target # "" /\ extracted[r].info.ext = "NON_LATIN1" =>
               /\ resp[r].status = 200
               /\ resp[r].error[1] = "Character encoding error: "
          /\ resp[r].status = 302 => target # "" /\ resp[r].location = target

\* the redirect goes to an audio-only candidate ahead of a video candidate
C7_Witness ==
  /\ DoneOn("r1", "/stream")
  /\ extracted["r1"].kind = "return"
  /\ extracted["r1"].info.url = ""
  /\ Len(extracted["r1"].info.formats) >= 3
  /\ extracted["r1"].info.formats[1].url = ""
  /\ extracted["r1"].info.formats[2].vcodec = "none"
  /\ extracted["r1"].info.formats[3].vcodec # "none"
  /\ extracted["r1"].info.ext = Missing
  /\ resp["r1"].status = 302
  /\ resp["r1"].location = "B"
  /\ resp["r1"].filename[4] = "mp4"

\* C8: every URL passed to ydl.extract_info is a valid absolute URL.
C8_ExtractorSeesValidUrls ==
  \A r \in Requests : \A i \in 1..Len(calls[r]) : HttpUrlValid(calls[r][i])

\* the response a request gets when handled alone, from its own input, the
\* availability flag, the Extractor's outcome for it and the clock it read
HandledAlone(request, available, rv, t) ==
  CASE request.path = "/extract" ->
         IF ~HttpUrlValid(request.url) THEN ValidationErrorResponse
         ELSE IF ~available THEN ExtractVideo(request.url, Return(MockData))
         ELSE ExtractVideo(request.url, ExtractVideoInfo(rv))
    [] request.path = "/stream" ->
         IF ~available THEN StreamUnavailable ELSE StreamVideo(rv, t)
    [] request.path = "/download" ->
         IF HttpUrlValid(request.url) THEN PrepareDownload(request.url)
         ELSE ValidationErrorResponse
    [] request.path = "/health" -> HealthResponse(available, t)
    [] request.path = "/" -> RootResponse(available, t)

\* what belongs to request r
Own(r) == <<pc[r], req[r], calls[r], extracted[r], now[r], video_data[r], resp[r]>>

\* C9: under every interleaving, each finished request has the response it
\* gets when handled alone; every step changes the state of one request only;
\* the availability flag never changes; a finished request stays as it is.
C9_RequestsAreIndependent ==
  /\ [](\A r \in Requests :
          pc[r] = "done" =>
            resp[r] = HandledAlone(req[r], YT_DLP_AVAILABLE, extracted[r], now[r]))
  /\ [][/\ YT_DLP_AVAILABLE' = YT_DLP_AVAILABLE
        /\ \A r \in Requests : pc[r] = "done" => Own(r)' = Own(r)
        /\ \A r, q \in Requests : r # q /\ Own(r)' # Own(r) => Own(q)' = Own(q)]_vars

\* r1 failed while r2 was in flight, and r2 got its redirect
C9_Witness ==
  /\ DoneOn("r1", "/extract")
  /\ resp["r1"].status = 500
  /\ DoneOn("r2", "/stream")
  /\ resp["r2"].status = 302
  /\ extracted["r1"].kind = "return"
  /\ extracted["r2"].info.formats # extracted["r1"].info.formats

\* C10: a POST /extract request calls ydl.extract_info at most once; when the
\* call raises, the request ends with status 500 carrying the message, after
\* that one call and with no selection made.
C10_OneCallThen500 ==
  \A r \in Requests :
    /\ req[r].path \in {"", "/extract"} => Len(calls[r]) <= 1
    /\ DoneOn(r, "/extract") /\ extracted[r].kind = "raise" =>
         /\ Len(calls[r]) = 1
         /\ resp[r].status = 500
         /\ resp[r].detail[Len(resp[r].detail)] = extracted[r].exc.msg[1]
         /\ video_data[r].kind = "raise"
         /\ video_data[r].value = NoVideoData
         /\ resp[r].formats = <<>>

C10_Witness ==
  /\ DoneOn("r1", "/extract")
  /\ extracted["r1"] = Raised(ExtractorError("network error"))
  /\ Len(calls["r1"]) = 1
  /\ video_data["r1"].kind = "raise"

====
